---- MODULE Spec2Model ----
(***************************************************************************)
(* A model of metadata_service/gcs_upload.py: the conditional uploader     *)
(* (upload_file_if_changed), the dual-target publisher (_file_upload) and  *)
(* the publish orchestrator (upload_metadata_to_gcs), over an object store *)
(* and a local file system.                                                *)
(*                                                                         *)
(* Representation.  Python's None is the empty tuple.  A local path is a   *)
(* record [dir, name] and a file name a pair <<stem, suffix>>, so that     *)
(* Path.name is the name field.  A remote blob path "{dir}/{alias}/{name}" *)
(* is a record [dir, alias, name].  File contents are records; a hash is a *)
(* tagged pair over the content it was computed from (the md5 of the store *)
(* is taken to be collision free).                                         *)
(***************************************************************************)
EXTENDS Integers, Sequences, FiniteSets, TLC

VARIABLES
    store,                    \* the bucket: blob path -> [content, cache_control]
    fs,                       \* the local file system: local path -> content
    calls,                    \* the standalone calls made so far (SpecCU, SpecFU)
    pc,                       \* the orchestrator's position in upload_metadata_to_gcs
    run,                      \* the number of the current run of the orchestrator
    opts,                     \* the caller's inputs of the run
    answers,                  \* what the git, SBOM, validation and credential collaborators answered
    tmp_high,                 \* per suffix, how many distinct temporary names were handed out
    manifest_only_file_info,  \* the ManifestOnlyFilePaths of the run
    metadata_file_path,       \* the local path of the mutated metadata file
    metadata,                 \* the validated document
    uploaded_files,           \* the outcomes collected so far
    report,                   \* the MetadataUploadInfo returned, or None
    err,                      \* the exception the run ended with, or None
    store_log                 \* the store operations of the current run

vars == <<store, fs, calls, pc, run, opts, answers, tmp_high, manifest_only_file_info,
          metadata_file_path, metadata, uploaded_files, report, err, store_log>>

None == <<>>

(***************************************************************************)
(* metadata_service.constants, as the specification's path layout and      *)
(* end-to-end scenario give them.                                          *)
(***************************************************************************)
METADATA_FOLDER == "metadata"

LATEST_GCS_FOLDER_NAME == "latest"

RELEASE_CANDIDATE_GCS_FOLDER_NAME == "release_candidate"

METADATA_FILE_NAME == <<"metadata", ".yaml">>

ICON_FILE_NAME == <<"icon", ".svg">>

MANIFEST_FILE_NAME == <<"manifest", ".yaml">>

COMPONENTS_PY_FILE_NAME == <<"components", ".py">>

(***************************************************************************)
(* The object store.                                                       *)
(***************************************************************************)
ComputeGcsMd5(content) == <<"md5", content>>

BlobPath(dir, alias, name) == [dir |-> dir, alias |-> alias, name |-> name]

BlobExists(st, blob_path) == blob_path \in DOMAIN st

\* blob.md5_hash after reload(): the store's hash of the object's content.
BlobMd5Hash(st, blob_path) ==
    IF BlobExists(st, blob_path) THEN ComputeGcsMd5(st[blob_path].content) ELSE None

BlobId(blob_path) == <<"id", blob_path>>

\* An upload that never sets the cache directive.
SaveBlobToGcs_NeverNoCache(st, blob_path, content, disable_cache) ==
    [p \in DOMAIN st \cup {blob_path} |->
        IF p = blob_path
        THEN [content |-> content, cache_control |-> "default"]
        ELSE st[p]]

\* _save_blob_to_gcs: the store after the upload of a file holding `content`.
SaveBlobToGcs(st, blob_path, content, disable_cache) ==
    [p \in DOMAIN st \cup {blob_path} |->
        IF p = blob_path
        THEN [content |-> content,
              cache_control |-> IF disable_cache THEN "no-cache" ELSE "default"]
        ELSE st[p]]

\* An uploader that writes whatever the store holds.
UploadFileIfChanged_Always(st, content, blob_path, disable_cache) ==
    [store |-> SaveBlobToGcs(st, blob_path, content, disable_cache),
     uploaded |-> TRUE, blob_id |-> BlobId(blob_path),
     reads |-> {blob_path}, writes |-> {blob_path}]

\* An uploader that writes only when the remote object does not exist.
UploadFileIfChanged_OnlyNew(st, content, blob_path, disable_cache) ==
    IF ~BlobExists(st, blob_path)
    THEN [store |-> SaveBlobToGcs(st, blob_path, content, disable_cache),
          uploaded |-> TRUE, blob_id |-> BlobId(blob_path),
          reads |-> {blob_path}, writes |-> {blob_path}]
    ELSE [store |-> st, uploaded |-> FALSE, blob_id |-> BlobId(blob_path),
          reads |-> {blob_path}, writes |-> {}]

\* upload_file_if_changed on a local file holding `content`: the store it leaves,
\* the MaybeUpload it returns and the blob paths it read and wrote.
UploadFileIfChanged(st, content, blob_path, disable_cache) ==
    LET local_file_md5_hash == ComputeGcsMd5(content)
        remote_blob_md5_hash == BlobMd5Hash(st, blob_path)
    IN  IF local_file_md5_hash # remote_blob_md5_hash
        THEN [store |-> SaveBlobToGcs(st, blob_path, content, disable_cache),
              uploaded |-> TRUE, blob_id |-> BlobId(blob_path),
              reads |-> {blob_path}, writes |-> {blob_path}]
        ELSE [store |-> st, uploaded |-> FALSE, blob_id |-> BlobId(blob_path),
              reads |-> {blob_path}, writes |-> {}]

(***************************************************************************)
(* The dual-target publisher.                                              *)
(***************************************************************************)
\* upload_as_version is a string or False; False and the empty string are both
\* falsy in "if upload_as_version:", and both are the empty string here.
NoVersion == ""

UploadedFile(id, uploaded, blob_id) ==
    [id |-> id, uploaded |-> uploaded, blob_id |-> blob_id]

\* f"{prefix}_{file_key}"
FileId(prefix, file_key) == <<prefix, file_key>>

PathExists(files, local_path) == local_path \in DOMAIN files

\* A policy that skips a missing file whatever skip_if_not_exists says.
MissingFileRaises_NeverRaises(skip_if_not_exists) == ""

\* Lines 245-251: what _file_upload raises for a missing file ("" when it
\* warns and returns instead).
MissingFileRaises(skip_if_not_exists) ==
    IF skip_if_not_exists THEN "" ELSE "FileNotFoundError"

\* A publisher that publishes the latest copy whatever upload_as_latest says.
FileUpload_AlwaysLatest(st, files, a) ==
    IF a.local_path = None \/ ~PathExists(files, a.local_path)
    THEN [raised |-> IF a.local_path = None THEN "AttributeError"
                     ELSE MissingFileRaises(a.skip_if_not_exists),
          store |-> st,
          versioned |-> UploadedFile(FileId("versioned", a.file_key), FALSE, None),
          latest |-> UploadedFile(FileId("latest", a.file_key), FALSE, None),
          reads |-> {}, writes |-> {}]
    ELSE
        LET content == files[a.local_path]
            v == IF a.upload_as_version # NoVersion
                 THEN UploadFileIfChanged(
                          st, content,
                          BlobPath(a.gcp_connector_dir, a.upload_as_version,
                                   a.local_path.name),
                          a.disable_cache)
                 ELSE [store |-> st, uploaded |-> FALSE, blob_id |-> None,
                       reads |-> {}, writes |-> {}]
            l == UploadFileIfChanged(
                     v.store, content,
                     BlobPath(a.gcp_connector_dir, LATEST_GCS_FOLDER_NAME,
                              a.local_path.name),
                     a.disable_cache)
        IN  [raised |-> "", store |-> l.store,
             versioned |-> UploadedFile(FileId("versioned", a.file_key),
                                        v.uploaded, v.blob_id),
             latest |-> UploadedFile(FileId("latest", a.file_key),
                                     l.uploaded, l.blob_id),
             reads |-> v.reads \cup l.reads, writes |-> v.writes \cup l.writes]

\* _file_upload with the keyword arguments in the record a: the exception it
\* raises ("" for none), the store it leaves, the two UploadedFile it returns
\* and the blob paths it read and wrote.
FileUpload(st, files, a) ==
    LET latest_file_key == FileId("latest", a.file_key)
        versioned_file_key == FileId("versioned", a.file_key)
        versioned_file_info == UploadedFile(versioned_file_key, FALSE, None)
        latest_file_info == UploadedFile(latest_file_key, FALSE, None)
        untouched == [store |-> st, versioned |-> versioned_file_info,
                      latest |-> latest_file_info, reads |-> {}, writes |-> {}]
    IN  IF a.local_path = None
        THEN \* None has no exists(): AttributeError
             [raised |-> "AttributeError"] @@ untouched
        ELSE IF ~PathExists(files, a.local_path)
        THEN [raised |-> MissingFileRaises(a.skip_if_not_exists)] @@ untouched
        ELSE
            LET content == files[a.local_path]
                v == IF a.upload_as_version # NoVersion
                     THEN UploadFileIfChanged(
                              st, content,
                              BlobPath(a.gcp_connector_dir, a.upload_as_version,
                                       a.local_path.name),
                              a.disable_cache)
                     ELSE [store |-> st, uploaded |-> FALSE, blob_id |-> None,
                           reads |-> {}, writes |-> {}]
                l == IF a.upload_as_latest
                     THEN UploadFileIfChanged(
                              v.store, content,
                              BlobPath(a.gcp_connector_dir, LATEST_GCS_FOLDER_NAME,
                                       a.local_path.name),
                              a.disable_cache)
                     ELSE [store |-> v.store, uploaded |-> FALSE, blob_id |-> None,
                           reads |-> {}, writes |-> {}]
            IN  [raised |-> "", store |-> l.store,
                 versioned |-> UploadedFile(versioned_file_key, v.uploaded, v.blob_id),
                 latest |-> UploadedFile(latest_file_key, l.uploaded, l.blob_id),
                 reads |-> v.reads \cup l.reads, writes |-> v.writes \cup l.writes]

(***************************************************************************)
(* State shared by the specifications.                                     *)
(***************************************************************************)
MaxUploads == 2

MaxFileUploads == 1

Repositories == {"source-foo"}

GcpConnectorDir(dockerRepository) == <<METADATA_FOLDER, dockerRepository>>

LocalPath(dir, name) == [dir |-> dir, name |-> name]

StoredBlob(content, cache_control) ==
    [content |-> content, cache_control |-> cache_control]

\* Every store holding, at some of the paths, an object with one of the contents.
StoresOver(paths, contents) ==
    UNION {[S -> {StoredBlob(c, "default") : c \in contents}] : S \in SUBSET paths}

SampleContents == {[bytes |-> "v1"], [bytes |-> "v2"]}

SampleLocalPath == LocalPath("wd", ICON_FILE_NAME)

SampleAliases == {"1.0.0", RELEASE_CANDIDATE_GCS_FOLDER_NAME, LATEST_GCS_FOLDER_NAME}

SamplePaths ==
    {BlobPath(GcpConnectorDir("source-foo"), al, ICON_FILE_NAME) : al \in SampleAliases}

orch_vars == <<pc, run, opts, answers, tmp_high, manifest_only_file_info,
               metadata_file_path, metadata, uploaded_files, report, err, store_log>>

OrchIdle ==
    /\ pc = "idle"
    /\ run = 0
    /\ opts = None
    /\ answers = None
    /\ tmp_high = [sfx \in {".zip", ".sha256", ".yaml"} |-> 0]
    /\ manifest_only_file_info = None
    /\ metadata_file_path = None
    /\ metadata = None
    /\ uploaded_files = <<>>
    /\ report = None
    /\ err = ""
    /\ store_log = {}

(***************************************************************************)
(* SpecCU: upload_file_if_changed called on its own, from any store.       *)
(***************************************************************************)
InitCU ==
    /\ store \in StoresOver({p \in SamplePaths : p.alias # "1.0.0"}, SampleContents)
    /\ fs \in [{SampleLocalPath} -> SampleContents]
    /\ calls = <<>>
    /\ OrchIdle

CU_Upload(local_file_path, blob_path, disable_cache) ==
    /\ Len(calls) < MaxUploads
    /\ PathExists(fs, local_file_path)
    /\ LET r == UploadFileIfChanged(store, fs[local_file_path], blob_path, disable_cache)
       IN  /\ store' = r.store
           /\ calls' = Append(calls,
                  [local_file_path |-> local_file_path,
                   content |-> fs[local_file_path],
                   blob_path |-> blob_path,
                   disable_cache |-> disable_cache,
                   before |-> store, after |-> r.store,
                   uploaded |-> r.uploaded, blob_id |-> r.blob_id])
    /\ UNCHANGED <<fs, orch_vars>>

\* The caller edits the local file between two publishes.
CU_ModifyLocalFile(local_file_path, content) ==
    /\ Len(calls) < MaxUploads
    /\ PathExists(fs, local_file_path)
    /\ fs[local_file_path] # content
    /\ fs' = [fs EXCEPT ![local_file_path] = content]
    /\ UNCHANGED <<store, calls, orch_vars>>

NextCU ==
    \/ \E lp \in {SampleLocalPath}, bp \in {p \in SamplePaths : p.alias # "1.0.0"},
          dc \in BOOLEAN : CU_Upload(lp, bp, dc)
    \/ \E lp \in {SampleLocalPath}, c \in SampleContents : CU_ModifyLocalFile(lp, c)

SpecCU == InitCU /\ [][NextCU]_vars

(***************************************************************************)
(* SpecFU: _file_upload called on its own, from any store, on a local file *)
(* that exists or not.  A version alias is a version tag or the release    *)
(* candidate folder, never the latest folder's own name.                   *)
(***************************************************************************)
InitFU ==
    /\ store \in StoresOver(SamplePaths, {[bytes |-> "v1"]})
    /\ fs \in {<<>>} \cup [{SampleLocalPath} -> SampleContents]
    /\ calls = <<>>
    /\ OrchIdle

FU_Call(a) ==
    /\ Len(calls) < MaxFileUploads
    /\ LET r == FileUpload(store, fs, a)
       IN  /\ store' = r.store
           /\ calls' = Append(calls,
                  [args |-> a, exists |-> PathExists(fs, a.local_path),
                   before |-> store, after |-> r.store, raised |-> r.raised,
                   versioned |-> r.versioned, latest |-> r.latest,
                   reads |-> r.reads, writes |-> r.writes])
    /\ UNCHANGED <<fs, orch_vars>>

FileUploadArgs ==
    [local_path : {SampleLocalPath},
     gcp_connector_dir : {GcpConnectorDir("source-foo")},
     file_key : {"icon"},
     upload_as_version : {NoVersion} \cup (SampleAliases \ {LATEST_GCS_FOLDER_NAME}),
     upload_as_latest : BOOLEAN,
     skip_if_not_exists : BOOLEAN,
     disable_cache : BOOLEAN]

NextFU == \E a \in FileUploadArgs : FU_Call(a)

SpecFU == InitFU /\ [][NextFU]_vars

(***************************************************************************)
(* Documents and the metadata mutator.                                     *)
(***************************************************************************)
\* validator_opts.prerelease_tag is a string or None; None is the empty string.
NoPrereleaseTag == ""

DOCS_URL_PREFIX == "https://docs.airbyte.com/"

\* get_doc_local_file_path on a documentationUrl <<prefix, rest>>: the regular
\* expression needs the prefix and a non-empty rest.
GetDocLocalFilePath(m, docs_path, inapp) ==
    IF m.documentationUrl[1] = DOCS_URL_PREFIX /\ m.documentationUrl[2] # ""
    THEN LocalPath(docs_path,
                   <<m.documentationUrl[2], IF inapp THEN ".inapp.md" ELSE ".md">>)
    ELSE None

\* An override step that rewrites the top-level tag alone.
ApplyPrereleaseOverrides_TopLevelOnly(metadata_dict, prerelease_tag) ==
    IF prerelease_tag = NoPrereleaseTag
    THEN metadata_dict
    ELSE [metadata_dict EXCEPT !.dockerImageTag = prerelease_tag]

\* An override step that returns the document as it got it.
ApplyPrereleaseOverrides_Identity(metadata_dict, prerelease_tag) == metadata_dict

\* _apply_prerelease_overrides
ApplyPrereleaseOverrides(metadata_dict, prerelease_tag) ==
    IF prerelease_tag = NoPrereleaseTag
    THEN metadata_dict
    ELSE [metadata_dict EXCEPT
            !.dockerImageTag = prerelease_tag,
            !.registryOverrides =
                [reg \in DOMAIN @ |->
                    IF "dockerImageTag" \in DOMAIN @[reg]
                    THEN [@[reg] EXCEPT !.dockerImageTag = prerelease_tag]
                    ELSE @[reg]]]

\* _apply_author_info_to_metadata_file, git_info being what
\* _get_git_info_for_file returned.
ApplyAuthorInfoToMetadataFile(metadata_dict, git_info) ==
    IF git_info # None
    THEN [metadata_dict EXCEPT !.generated.git = git_info]
    ELSE metadata_dict

\* _apply_python_components_sha_to_metadata_file
ApplyPythonComponentsShaToMetadataFile(metadata_dict, python_components_sha256) ==
    IF python_components_sha256 # None
    THEN [metadata_dict EXCEPT
            !.generated.pythonComponents =
                [required |-> TRUE, sha256 |-> python_components_sha256]]
    ELSE metadata_dict

SbomUrl(metadata_dict) ==
    <<"https://connectors.airbyte.com/files/sbom/", metadata_dict.dockerRepository,
      metadata_dict.dockerImageTag, ".spdx.json">>

\* _apply_sbom_url_to_metadata_file, response_ok being the answer of the HEAD
\* request when it returns.
ApplySbomUrlToMetadataFile(metadata_dict, response_ok) ==
    IF ~({"dockerRepository", "dockerImageTag"} \subseteq DOMAIN metadata_dict)
    THEN metadata_dict
    ELSE IF response_ok
    THEN [metadata_dict EXCEPT !.generated.sbomUrl = SbomUrl(metadata_dict)]
    ELSE metadata_dict

\* The four transformations of _apply_modifications_to_metadata_file, in order.
ApplyModifications(metadata_dict, prerelease_tag, git_info, sha256, response_ok) ==
    ApplySbomUrlToMetadataFile(
        ApplyPythonComponentsShaToMetadataFile(
            ApplyAuthorInfoToMetadataFile(
                ApplyPrereleaseOverrides(metadata_dict, prerelease_tag), git_info),
            sha256),
        response_ok)

\* yaml.dump of a dict, and what yaml.safe_load reads back from a file: None
\* when the content is no yaml mapping.
YamlDump(metadata_dict) == [yaml |-> metadata_dict]

YamlLoad(content) == IF "yaml" \in DOMAIN content THEN content.yaml ELSE None

(***************************************************************************)
(* Spec: runs of upload_metadata_to_gcs.  A run that returned may be run   *)
(* again with the same inputs and the same collaborator answers, on the    *)
(* store and the temporary directory the earlier runs left.                *)
(***************************************************************************)
MaxRuns == 2

Tags == {"2.1.0"}

PrereleaseTags == {"2.1.0-dev.abc123"}

DOCS_PATH == "docs"

WORKING_DIRECTORY == "wd"

TMP_DIRECTORY == "tmp"

\* Names tempfile hands out are compared only for equality: the n-th distinct
\* name of a suffix is the n-th stem.
TmpStems == <<"tmp1", "tmp2", "tmp3", "tmp4", "tmp5">>

Suffixes == {".zip", ".sha256", ".yaml"}

TmpPath(n, suffix) == LocalPath(TMP_DIRECTORY, <<TmpStems[n], suffix>>)

\* tempfile.NamedTemporaryFile(suffix=..., delete=False): a name no file of the
\* temporary directory bears.
TmpCandidates(files, high, suffix) ==
    {n \in 1..(high[suffix] + 1) : ~PathExists(files, TmpPath(n, suffix))}

Max(a, b) == IF a > b THEN a ELSE b

WriteFile(files, local_path, content) ==
    [q \in DOMAIN files \cup {local_path} |->
        IF q = local_path THEN content ELSE files[q]]

EmptyFile == [bytes |-> ""]

\* create_zip_and_get_sha256: the archive of the files, and its sha256.
ZipOf(files, paths) == [zip |-> [i \in DOMAIN paths |-> files[paths[i]]]]

Sha256(content) == <<"sha256", content>>

NoGenerated == [git |-> None, pythonComponents |-> None, sbomUrl |-> None]

SampleOverrides ==
    [cloud |-> [dockerImageTag |-> "2.1.0"], oss |-> [enabled |-> TRUE]]

ReleasesSections == {None, [isReleaseCandidate |-> TRUE], [isReleaseCandidate |-> FALSE]}

DocumentationUrls == {<<DOCS_URL_PREFIX, "foo">>, <<"https://example.com/", "foo">>}

Documents ==
    [dockerRepository : Repositories,
     dockerImageTag : Tags,
     documentationUrl : DocumentationUrls,
     releases : ReleasesSections,
     registryOverrides : {SampleOverrides},
     generated : {NoGenerated}]

SampleGitInfo == [commit_sha |-> "abc123", commit_author |-> "dev"]

MetadataPath == LocalPath(WORKING_DIRECTORY, METADATA_FILE_NAME)

ManifestPath == LocalPath(WORKING_DIRECTORY, MANIFEST_FILE_NAME)

ComponentsPath == LocalPath(WORKING_DIRECTORY, COMPONENTS_PY_FILE_NAME)

OptionalFiles ==
    {LocalPath(WORKING_DIRECTORY, ICON_FILE_NAME), ManifestPath, ComponentsPath,
     LocalPath(DOCS_PATH, <<"foo", ".md">>), LocalPath(DOCS_PATH, <<"foo", ".inapp.md">>)}

\* The connector's files: the metadata file and some of the optional files, a
\* components.py only beside a manifest.
Layouts ==
    {S \in SUBSET OptionalFiles : ComponentsPath \in S => ManifestPath \in S}

FileSystem(doc, layout) ==
    [q \in layout \cup {MetadataPath} |->
        IF q = MetadataPath THEN YamlDump(doc) ELSE [bytes |-> q.name[1]]]

Init ==
    /\ store = <<>>
    /\ calls = <<>>
    /\ \/ \E doc \in Documents, layout \in Layouts : fs = FileSystem(doc, layout)
       \/ fs = [q \in {MetadataPath} |-> [bytes |-> "not a mapping"]]
    /\ pc = "start"
    /\ run = 1
    /\ opts \in [metadata_file_path : {MetadataPath},
                 prerelease_tag : {NoPrereleaseTag} \cup PrereleaseTags,
                 docs_path : {DOCS_PATH}]
    /\ answers = [git |-> None, sbom |-> FALSE, valid |-> FALSE, gcs_creds |-> ""]
    /\ tmp_high = [sfx \in Suffixes |-> 0]
    /\ manifest_only_file_info = None
    /\ metadata_file_path = None
    /\ metadata = None
    /\ uploaded_files = <<>>
    /\ report = None
    /\ err = ""
    /\ store_log = {}

\* maybe_create_components_zip(working_directory), lines 380-381.
MaybeCreateComponentsZip ==
    /\ pc = "start"
    /\ \E z \in TmpCandidates(fs, tmp_high, ".zip"),
          h \in TmpCandidates(fs, tmp_high, ".sha256") :
        LET working_directory == opts.metadata_file_path.dir
            yaml_manifest_file_path == LocalPath(working_directory, MANIFEST_FILE_NAME)
            components_py_file_path == LocalPath(working_directory, COMPONENTS_PY_FILE_NAME)
            zip_path == TmpPath(z, ".zip")
            sha_path == TmpPath(h, ".sha256")
            zipped == PathExists(fs, components_py_file_path)
            archive == ZipOf(fs, <<components_py_file_path, yaml_manifest_file_path>>)
        IN  /\ fs' = WriteFile(
                        WriteFile(fs, zip_path, IF zipped THEN archive ELSE EmptyFile),
                        sha_path,
                        IF zipped THEN [text |-> Sha256(archive)] ELSE EmptyFile)
            /\ manifest_only_file_info' =
                   [zip_file_path |-> zip_path,
                    sha256_file_path |-> sha_path,
                    sha256 |-> IF zipped THEN Sha256(archive) ELSE None,
                    manifest_file_path |-> yaml_manifest_file_path]
            /\ tmp_high' = [tmp_high EXCEPT ![".zip"] = Max(@, z),
                                            ![".sha256"] = Max(@, h)]
    /\ pc' = "modify"
    /\ UNCHANGED <<store, calls, run, opts, answers, metadata_file_path, metadata,
                   uploaded_files, report, err, store_log>>

Fail(exception) ==
    /\ pc' = "failed"
    /\ err' = exception

\* _get_git_info_for_file: what it raises and returns, by what git finds.
GitOutcomes == {"commit", "InvalidGitRepositoryError", "untracked", "GitCommandError"}

GetGitInfoForFile(outcome) ==
    CASE outcome = "commit" -> [raised |-> "", git_info |-> SampleGitInfo]
      [] outcome = "InvalidGitRepositoryError" -> [raised |-> "", git_info |-> None]
      [] outcome = "untracked" -> [raised |-> "", git_info |-> None]
      [] OTHER -> [raised |-> "GitCommandError", git_info |-> None]

\* requests.head(sbom_url): a response that is ok or not, or an exception.
HeadOutcomes == {"ok", "not ok", "ConnectionError"}

\* The first run draws the collaborators' answers; a later run gets the same.
SameAnswers(git_info, response_ok) ==
    run > 1 => (git_info = answers.git /\ response_ok = answers.sbom)

\* _apply_modifications_to_metadata_file, lines 383-387.
ApplyModificationsToMetadataFile ==
    /\ pc = "modify"
    /\ LET metadata_dict == YamlLoad(fs[opts.metadata_file_path])
       IN  \/ /\ metadata_dict = None
              /\ Fail("ValueError")
              /\ UNCHANGED <<fs, answers, tmp_high, metadata_file_path>>
           \/ /\ metadata_dict # None
              /\ \E g \in GitOutcomes, h \in HeadOutcomes :
                  LET git == GetGitInfoForFile(g)
                  IN  \/ /\ git.raised # ""
                         /\ run = 1
                         /\ Fail(git.raised)
                         /\ UNCHANGED <<fs, answers, tmp_high, metadata_file_path>>
                      \/ /\ git.raised = ""
                         /\ h = "ConnectionError"
                         /\ run = 1
                         /\ Fail("ConnectionError")
                         /\ UNCHANGED <<fs, answers, tmp_high, metadata_file_path>>
                      \/ /\ git.raised = ""
                         /\ h # "ConnectionError"
                         /\ SameAnswers(git.git_info, h = "ok")
                         /\ \E y \in TmpCandidates(fs, tmp_high, ".yaml") :
                             /\ fs' = WriteFile(fs, TmpPath(y, ".yaml"),
                                    YamlDump(ApplyModifications(
                                        metadata_dict, opts.prerelease_tag, git.git_info,
                                        manifest_only_file_info.sha256, h = "ok")))
                             /\ metadata_file_path' = TmpPath(y, ".yaml")
                             /\ tmp_high' = [tmp_high EXCEPT ![".yaml"] = Max(@, y)]
                         /\ answers' = [answers EXCEPT !.git = git.git_info,
                                                        !.sbom = (h = "ok")]
                         /\ pc' = "validate"
                         /\ UNCHANGED err
    /\ UNCHANGED <<store, calls, run, opts, manifest_only_file_info, metadata,
                   uploaded_files, report, store_log>>

\* A gate that lets every result of validate_and_load through.
InvalidForUploading_Never(loaded) == FALSE

\* Line 390: "if metadata is None".
InvalidForUploading(loaded) == loaded = None

\* validate_and_load and the check of its result, lines 389-391: the validators
\* accept the mutated file or not, and validate_and_load returns the document
\* or None with an error.
ValidateAndLoad ==
    /\ pc = "validate"
    /\ \E valid \in BOOLEAN :
        LET loaded == IF valid THEN YamlLoad(fs[metadata_file_path]) ELSE None
        IN  /\ run > 1 => valid
            /\ answers' = [answers EXCEPT !.valid = valid]
            /\ IF InvalidForUploading(loaded)
               THEN /\ Fail("ValueError")
                    /\ UNCHANGED metadata
               ELSE /\ metadata' = loaded
                    /\ pc' = "credentials"
                    /\ UNCHANGED err
    /\ UNCHANGED <<store, fs, calls, run, opts, tmp_high,
                   manifest_only_file_info, metadata_file_path, uploaded_files,
                   report, store_log>>

\* GCS_CREDENTIALS in the environment.
CredentialStates == {"absent", "empty", "not json", "not a service account", "ok"}

\* Credentials that pass whenever the variable is set to some text.
CredentialsError_OnlyWhenUnset(gcs_creds) ==
    IF gcs_creds \in {"absent", "empty"} THEN "ValueError" ELSE ""

\* Lines 397-403: what resolving the credentials raises ("" for nothing):
\* "not gcs_creds" for an absent or empty variable, json.loads for text that
\* is no JSON, from_service_account_info for JSON that is no service account.
CredentialsError(gcs_creds) ==
    CASE gcs_creds \in {"absent", "empty"} -> "ValueError"
      [] gcs_creds = "not json" -> "JSONDecodeError"
      [] gcs_creds = "not a service account" -> "ValueError"
      [] OTHER -> ""

\* Lines 397-404: the credentials and the client.
ResolveCredentials ==
    /\ pc = "credentials"
    /\ \E gcs_creds \in CredentialStates :
        /\ run > 1 => gcs_creds = "ok"
        /\ answers' = [answers EXCEPT !.gcs_creds = gcs_creds]
        /\ IF CredentialsError(gcs_creds) = ""
           THEN pc' = "metadata" /\ UNCHANGED err
           ELSE Fail(CredentialsError(gcs_creds))
    /\ UNCHANGED <<store, fs, calls, run, opts, tmp_high,
                   manifest_only_file_info, metadata_file_path, metadata,
                   uploaded_files, report, store_log>>

\* Lines 393-396 and 411: the classification flags and the version alias.
IsPreRelease(prerelease_tag) == prerelease_tag # NoPrereleaseTag

\* getattr(metadata.data.releases, "isReleaseCandidate", False)
IsReleaseCandidate(m) ==
    IF "isReleaseCandidate" \in DOMAIN m.releases
    THEN m.releases.isReleaseCandidate
    ELSE FALSE

\* A release_candidate copy for every release candidate, prerelease or not.
ShouldUploadReleaseCandidate_IgnoresPrerelease(is_release_candidate, is_pre_release) ==
    is_release_candidate

ShouldUploadReleaseCandidate(is_release_candidate, is_pre_release) ==
    is_release_candidate /\ ~is_pre_release

\* A latest copy for every run that is no prerelease.
ShouldUploadLatest_IgnoresReleaseCandidate(is_release_candidate, is_pre_release) ==
    ~is_pre_release

\* A latest copy in every run.
ShouldUploadLatest_Always(is_release_candidate, is_pre_release) == TRUE

ShouldUploadLatest(is_release_candidate, is_pre_release) ==
    ~is_release_candidate /\ ~is_pre_release

UploadAsVersion(m, prerelease_tag) ==
    IF ~IsPreRelease(prerelease_tag) THEN m.dockerImageTag ELSE prerelease_tag

should_upload_release_candidate ==
    ShouldUploadReleaseCandidate(IsReleaseCandidate(metadata),
                                 IsPreRelease(opts.prerelease_tag))

should_upload_latest ==
    ShouldUploadLatest(IsReleaseCandidate(metadata), IsPreRelease(opts.prerelease_tag))

upload_as_version == UploadAsVersion(metadata, opts.prerelease_tag)

gcp_connector_dir == GcpConnectorDir(metadata.dockerRepository)

LogEntries(r, file_key, disable_cache) ==
    {[op |-> "read", path |-> p, file_key |-> file_key, disable_cache |-> disable_cache]
        : p \in r.reads}
    \cup
    {[op |-> "write", path |-> p, file_key |-> file_key, disable_cache |-> disable_cache]
        : p \in r.writes}

\* One call of _file_upload by the orchestrator and
\* uploaded_files.extend(...) of what it returns.
UploadStep(here, next, file_key, local_path, as_version, as_latest, disable_cache) ==
    /\ pc = here
    /\ LET r == FileUpload(store, fs,
                    [local_path |-> local_path,
                     gcp_connector_dir |-> gcp_connector_dir,
                     file_key |-> file_key,
                     upload_as_version |-> as_version,
                     upload_as_latest |-> as_latest,
                     skip_if_not_exists |-> TRUE,
                     disable_cache |-> disable_cache])
       IN  IF r.raised # ""
           THEN /\ Fail(r.raised)
                /\ UNCHANGED <<store, uploaded_files, store_log>>
           ELSE /\ store' = r.store
                /\ uploaded_files' = uploaded_files \o <<r.versioned, r.latest>>
                /\ store_log' = store_log \cup LogEntries(r, file_key, disable_cache)
                /\ pc' = next
                /\ UNCHANGED err
    /\ UNCHANGED <<fs, calls, run, opts, answers, tmp_high, manifest_only_file_info,
                   metadata_file_path, metadata, report>>

\* Lines 417-426.
UploadMetadata ==
    UploadStep("metadata",
               IF should_upload_release_candidate THEN "release_candidate" ELSE "icon",
               "metadata", metadata_file_path, upload_as_version,
               should_upload_latest, TRUE)

\* Lines 431-441.
UploadReleaseCandidate ==
    UploadStep("release_candidate", "icon", "release_candidate", metadata_file_path,
               RELEASE_CANDIDATE_GCS_FOLDER_NAME, FALSE, TRUE)

\* Lines 445-453.
UploadIcon ==
    UploadStep("icon", "doc", "icon",
               LocalPath(metadata_file_path.dir, ICON_FILE_NAME),
               NoVersion, should_upload_latest, FALSE)

\* Lines 457-466.
UploadDoc ==
    UploadStep("doc", "inapp_doc", "doc",
               GetDocLocalFilePath(metadata, opts.docs_path, FALSE),
               upload_as_version, should_upload_latest, FALSE)

\* Lines 468-477.
UploadInappDoc ==
    UploadStep("inapp_doc", "manifest", "inapp_doc",
               GetDocLocalFilePath(metadata, opts.docs_path, TRUE),
               upload_as_version, should_upload_latest, FALSE)

\* A manifest step followed by the zip step, the hash step left out.
UploadManifest_ThenZip ==
    UploadStep("manifest", "components_zip", "manifest",
               manifest_only_file_info.manifest_file_path,
               upload_as_version, should_upload_latest, FALSE)

\* Lines 481-489.
UploadManifest ==
    UploadStep("manifest", "components_zip_sha256", "manifest",
               manifest_only_file_info.manifest_file_path,
               upload_as_version, should_upload_latest, FALSE)

\* Lines 491-499.
UploadComponentsZipSha256 ==
    UploadStep("components_zip_sha256", "components_zip", "components_zip_sha256",
               manifest_only_file_info.sha256_file_path,
               upload_as_version, should_upload_latest, FALSE)

\* Lines 501-509.
UploadComponentsZip ==
    UploadStep("components_zip", "return", "components_zip",
               manifest_only_file_info.zip_file_path,
               upload_as_version, should_upload_latest, FALSE)

\* _any_uploaded
AnyUploaded(files, keys) ==
    \E i \in 1..Len(files) : files[i].id \in keys

\* The ids upload_metadata_to_gcs passes to _any_uploaded, lines 516-520.
MetadataUploadedKeys ==
    {FileId("latest", "metadata"), FileId("version", "metadata"),
     FileId("version", "release_candidate")}

\* Lines 511-522.
Return ==
    /\ pc = "return"
    /\ report' = [uploaded_files |-> uploaded_files,
                  metadata_file_path |-> metadata_file_path,
                  metadata_uploaded |-> AnyUploaded(uploaded_files, MetadataUploadedKeys)]
    /\ pc' = "done"
    /\ UNCHANGED <<store, fs, calls, run, opts, answers, tmp_high,
                   manifest_only_file_info, metadata_file_path, metadata,
                   uploaded_files, err, store_log>>

\* The caller publishes again: same metadata file, working directory, docs tree
\* and options.
RunAgain ==
    /\ pc = "done"
    /\ run < MaxRuns
    /\ pc' = "start"
    /\ run' = run + 1
    /\ manifest_only_file_info' = None
    /\ metadata_file_path' = None
    /\ metadata' = None
    /\ uploaded_files' = <<>>
    /\ report' = None
    /\ store_log' = {}
    /\ UNCHANGED <<store, fs, calls, opts, answers, tmp_high, err>>

\* The temporary directory is emptied between two runs.
CleanTmp ==
    /\ pc = "done"
    /\ run < MaxRuns
    /\ \E q \in DOMAIN fs : q.dir = TMP_DIRECTORY
    /\ fs' = [q \in {x \in DOMAIN fs : x.dir # TMP_DIRECTORY} |-> fs[q]]
    /\ UNCHANGED <<store, calls, pc, run, opts, answers, tmp_high,
                   manifest_only_file_info, metadata_file_path, metadata,
                   uploaded_files, report, err, store_log>>

Next ==
    \/ MaybeCreateComponentsZip
    \/ ApplyModificationsToMetadataFile
    \/ ValidateAndLoad
    \/ ResolveCredentials
    \/ UploadMetadata
    \/ UploadReleaseCandidate
    \/ UploadIcon
    \/ UploadDoc
    \/ UploadInappDoc
    \/ UploadManifest
    \/ UploadComponentsZipSha256
    \/ UploadComponentsZip
    \/ Return
    \/ RunAgain

Spec == Init /\ [][Next]_vars

\* SpecTmp: the same runs, where the temporary directory may be emptied between
\* two of them, so that a later run may be handed a name an earlier run bore.
NextTmp == Next \/ CleanTmp

SpecTmp == Init /\ [][NextTmp]_vars

\* The temporary directory is not the run's own: the mutated metadata file,
\* created with delete=False, is removed from it before a step uploads it.
RemoveMetadataTmpFile ==
    /\ pc \in {"metadata", "release_candidate"}
    /\ PathExists(fs, metadata_file_path)
    /\ fs' = [q \in DOMAIN fs \ {metadata_file_path} |-> fs[q]]
    /\ UNCHANGED <<store, calls, pc, run, opts, answers, tmp_high,
                   manifest_only_file_info, metadata_file_path, metadata,
                   uploaded_files, report, err, store_log>>

\* SpecRm: the same runs, where the mutated metadata file may be gone by the
\* time a metadata step looks for it.
NextRm == Next \/ RemoveMetadataTmpFile

SpecRm == Init /\ [][NextRm]_vars

\* The caller marks the connector a release candidate in its metadata file and
\* publishes again, on the store the earlier runs left.
RunAgainAsReleaseCandidate ==
    /\ pc = "done"
    /\ run < MaxRuns
    /\ ~IsReleaseCandidate(YamlLoad(fs[opts.metadata_file_path]))
    /\ fs' = [fs EXCEPT ![opts.metadata_file_path] =
                 YamlDump([YamlLoad(@) EXCEPT
                              !.releases = [isReleaseCandidate |-> TRUE]])]
    /\ pc' = "start"
    /\ run' = run + 1
    /\ manifest_only_file_info' = None
    /\ metadata_file_path' = None
    /\ metadata' = None
    /\ uploaded_files' = <<>>
    /\ report' = None
    /\ store_log' = {}
    /\ UNCHANGED <<store, calls, opts, answers, tmp_high, err>>

\* SpecRC: the same runs, where a published connector may be published again
\* as a release candidate.
NextRC == Next \/ RunAgainAsReleaseCandidate

SpecRC == Init /\ [][NextRC]_vars

\* What a later edit of the metadata file may set: another version, another
\* repository.
LaterRepositories == Repositories \cup {"source-bar"}

LaterTags == Tags \cup {"2.2.0"}

\* The caller publishes again with other inputs: the metadata file edited to
\* another version or repository, with or without a prerelease tag, on the
\* store the earlier runs left.
RunAgainWithOtherInputs ==
    /\ pc = "done"
    /\ run < MaxRuns
    /\ \E r \in LaterRepositories, t \in LaterTags,
          tag \in {NoPrereleaseTag} \cup PrereleaseTags :
        LET doc == [YamlLoad(fs[opts.metadata_file_path]) EXCEPT
                       !.dockerRepository = r, !.dockerImageTag = t]
        IN  /\ <<YamlDump(doc), tag>> #
                   <<fs[opts.metadata_file_path], opts.prerelease_tag>>
            /\ fs' = [fs EXCEPT ![opts.metadata_file_path] = YamlDump(doc)]
            /\ opts' = [opts EXCEPT !.prerelease_tag = tag]
    /\ pc' = "start"
    /\ run' = run + 1
    /\ manifest_only_file_info' = None
    /\ metadata_file_path' = None
    /\ metadata' = None
    /\ uploaded_files' = <<>>
    /\ report' = None
    /\ store_log' = {}
    /\ UNCHANGED <<store, calls, answers, tmp_high, err>>

\* Between two runs the mutated metadata files of earlier runs are removed
\* from the temporary directory.
CleanTmpMetadata ==
    /\ pc = "done"
    /\ run < MaxRuns
    /\ \E q \in DOMAIN fs : q.dir = TMP_DIRECTORY /\ q.name[2] = ".yaml"
    /\ fs' = [q \in {x \in DOMAIN fs : ~(x.dir = TMP_DIRECTORY /\ x.name[2] = ".yaml")}
                 |-> fs[q]]
    /\ UNCHANGED <<store, calls, pc, run, opts, answers, tmp_high,
                   manifest_only_file_info, metadata_file_path, metadata,
                   uploaded_files, report, err, store_log>>

\* SpecSeq: sequences of runs with changing inputs, from an empty store, on a
\* connector directory holding the metadata file alone; a later run may be
\* handed the name an earlier mutated metadata file bore.
InitSeq == Init /\ DOMAIN fs = {MetadataPath}

NextSeq == Next \/ RunAgainWithOtherInputs \/ CleanTmpMetadata

SpecSeq == InitSeq /\ [][NextSeq]_vars

(***************************************************************************)
(* Properties of the conditional uploader (SpecCU).                        *)
(***************************************************************************)
BlobAt(st, blob_path) == IF BlobExists(st, blob_path) THEN st[blob_path] ELSE None

ChangedPaths(before, after) ==
    {p \in DOMAIN before \cup DOMAIN after : BlobAt(before, p) # BlobAt(after, p)}

\* Two consecutive calls on the same local file, unchanged, and the same remote
\* path, the second starting from the store the first one left.
SamePublishTwice(i) ==
    /\ calls[i + 1].local_file_path = calls[i].local_file_path
    /\ calls[i + 1].content = calls[i].content
    /\ calls[i + 1].blob_path = calls[i].blob_path
    /\ calls[i + 1].before = calls[i].after

\* C4: after one call of upload_file_if_changed has returned, a second call with
\* the same unchanged local file and the same remote path returns
\* uploaded = False and leaves the store as it found it.
C4_SecondUploadSkips ==
    \A i \in 1..(Len(calls) - 1) :
        SamePublishTwice(i) =>
            /\ calls[i + 1].uploaded = FALSE
            /\ calls[i + 1].after = calls[i + 1].before

\* The first of two identical publishes wrote, the second was skipped.
C4_Witness ==
    \E i \in 1..(Len(calls) - 1) :
        /\ SamePublishTwice(i)
        /\ calls[i].uploaded
        /\ ~calls[i + 1].uploaded

VersionedTarget(a) ==
    BlobPath(a.gcp_connector_dir, a.upload_as_version, a.local_path.name)

LatestTarget(a) ==
    BlobPath(a.gcp_connector_dir, LATEST_GCS_FOLDER_NAME, a.local_path.name)

AllowedTargets(a) ==
    (IF a.upload_as_version # NoVersion THEN {VersionedTarget(a)} ELSE {})
        \cup (IF a.upload_as_latest THEN {LatestTarget(a)} ELSE {})

NotWritten(uploaded_file, id) == uploaded_file = UploadedFile(id, FALSE, None)

\* C7: for an existing local file, _file_upload reads and writes no remote path
\* but {dir}/{versionAlias}/{filename} (a version alias given) and
\* {dir}/latest/{filename} (upload_as_latest); latest only writes no versioned
\* path, versioned only does not write the latest path, and with neither the
\* call succeeds, writes nothing and returns two outcomes not uploaded, no id.
C7_AliasIndependence ==
    \A i \in 1..Len(calls) :
        LET c == calls[i]
            a == c.args
            touched == c.reads \cup c.writes \cup ChangedPaths(c.before, c.after)
        IN  c.exists =>
            /\ c.raised = ""
            /\ touched \subseteq AllowedTargets(a)
            /\ a.upload_as_version = NoVersion =>
                   \A p \in touched : p.alias = LATEST_GCS_FOLDER_NAME
            /\ ~a.upload_as_latest => LatestTarget(a) \notin touched
            /\ (a.upload_as_version = NoVersion /\ ~a.upload_as_latest) =>
                   /\ c.after = c.before
                   /\ c.writes = {}
                   /\ NotWritten(c.versioned, FileId("versioned", a.file_key))
                   /\ NotWritten(c.latest, FileId("latest", a.file_key))

\* A call with no version alias and upload_as_latest wrote the latest copy while
\* a versioned object of the same name sat in the store.
C7_Witness ==
    \E i \in 1..Len(calls) :
        LET c == calls[i]
        IN  /\ c.exists
            /\ c.args.upload_as_version = NoVersion
            /\ c.args.upload_as_latest
            /\ c.latest.uploaded
            /\ \E p \in DOMAIN c.before : p.alias = "1.0.0"

\* C8: when the local path does not exist, _file_upload performs no store
\* operation, whatever the alias flags; with skip_if_not_exists it returns the
\* outcomes versioned_<key> and latest_<key>, not uploaded and without id, and
\* without it it raises FileNotFoundError.
C8_MissingFilePolicy ==
    \A i \in 1..Len(calls) :
        LET c == calls[i]
            a == c.args
        IN  ~c.exists =>
            /\ c.reads = {} /\ c.writes = {} /\ c.after = c.before
            /\ a.skip_if_not_exists =>
                   /\ c.raised = ""
                   /\ NotWritten(c.versioned, FileId("versioned", a.file_key))
                   /\ NotWritten(c.latest, FileId("latest", a.file_key))
            /\ ~a.skip_if_not_exists => c.raised = "FileNotFoundError"

\* A missing file was skipped by a call asked to publish both copies.
C8_Witness ==
    \E i \in 1..Len(calls) :
        LET c == calls[i]
        IN  /\ ~c.exists
            /\ c.args.skip_if_not_exists
            /\ c.args.upload_as_version # NoVersion
            /\ c.args.upload_as_latest
            /\ c.raised = ""

(***************************************************************************)
(* Properties of the orchestrator (Spec, SpecTmp).                         *)
(***************************************************************************)
Outcomes(files) == {files[i] : i \in 1..Len(files)}

Writes == {e \in store_log : e.op = "write"}

\* The log entries of the two steps that publish the metadata file.
MetadataEntries == {e \in store_log : e.file_key \in {"metadata", "release_candidate"}}

\* C1: the report's metadata_uploaded flag is true if and only if an outcome
\* with id latest_metadata, versioned_metadata or versioned_release_candidate
\* has uploaded = true.
C1_MetadataUploadedFlag ==
    pc = "done" =>
        (report.metadata_uploaded <=>
            \E o \in Outcomes(report.uploaded_files) :
                /\ o.id \in {FileId("latest", "metadata"), FileId("versioned", "metadata"),
                             FileId("versioned", "release_candidate")}
                /\ o.uploaded)

\* C2: the metadata file is written only to {metadata}/{repository}/{alias}/
\* metadata.yaml, the alias being the version, latest or release_candidate.
C2_MetadataFileName ==
    \A e \in MetadataEntries :
        e.op = "write" =>
            /\ e.path.dir = GcpConnectorDir(metadata.dockerRepository)
            /\ e.path.alias \in {upload_as_version, LATEST_GCS_FOLDER_NAME,
                                 RELEASE_CANDIDATE_GCS_FOLDER_NAME}
            /\ e.path.name = METADATA_FILE_NAME

\* C3: a run repeated with unchanged inputs, on the store the first run left,
\* writes nothing and reports uploaded = false for every outcome.
C3_RerunWritesNothing ==
    run > 1 =>
        /\ Writes = {}
        /\ \A o \in Outcomes(uploaded_files) : ~o.uploaded

IsReleaseCandidateDocument(m) == m.releases = [isReleaseCandidate |-> TRUE]

StepDone(file_key) ==
    \E o \in Outcomes(uploaded_files) : o.id = FileId("versioned", file_key)

\* The store holds the mutated document under the alias, at a path one of the
\* metadata steps of this run addressed.
MetadataPublishedAt(alias) ==
    \E e \in MetadataEntries :
        /\ e.path.dir = GcpConnectorDir(metadata.dockerRepository)
        /\ e.path.alias = alias
        /\ BlobExists(store, e.path)
        /\ store[e.path].content = YamlDump(metadata)

\* C6: without a prerelease tag, a release candidate has its metadata published
\* under release_candidate and no metadata step addresses latest; any other
\* document has it published under latest and none addresses release_candidate.
C6_ReleaseCandidateRouting ==
    (metadata # None /\ opts.prerelease_tag = NoPrereleaseTag) =>
        IF IsReleaseCandidateDocument(metadata)
        THEN /\ \A e \in MetadataEntries : e.path.alias # LATEST_GCS_FOLDER_NAME
             /\ (StepDone("metadata") /\ pc # "release_candidate") =>
                    MetadataPublishedAt(RELEASE_CANDIDATE_GCS_FOLDER_NAME)
        ELSE /\ \A e \in MetadataEntries :
                    e.path.alias # RELEASE_CANDIDATE_GCS_FOLDER_NAME
             /\ ~StepDone("release_candidate")
             /\ StepDone("metadata") => MetadataPublishedAt(LATEST_GCS_FOLDER_NAME)

\* A release candidate was published without a prerelease tag, and the run
\* returned.
C6_Witness ==
    /\ pc = "done"
    /\ opts.prerelease_tag = NoPrereleaseTag
    /\ IsReleaseCandidateDocument(metadata)
    /\ MetadataPublishedAt(RELEASE_CANDIDATE_GCS_FOLDER_NAME)
    /\ \E e \in MetadataEntries :
        e.op = "write" /\ e.path.alias = RELEASE_CANDIDATE_GCS_FOLDER_NAME

\* C9: with no components.py in the working directory, a run writes no
\* components_zip object and both components_zip outcomes report
\* uploaded = false.
C9_NoComponentsNoZip ==
    (pc = "done" /\ ~PathExists(fs, ComponentsPath)) =>
        /\ \A e \in Writes : e.file_key # "components_zip"
        /\ \A o \in Outcomes(uploaded_files) :
            o.id \in {FileId("versioned", "components_zip"),
                      FileId("latest", "components_zip")} => ~o.uploaded

\* The local path the orchestrator hands to _file_upload for an optional kind.
OptionalLocalPath(file_key) ==
    CASE file_key = "icon" -> LocalPath(metadata_file_path.dir, ICON_FILE_NAME)
      [] file_key = "doc" -> GetDocLocalFilePath(metadata, opts.docs_path, FALSE)
      [] file_key = "inapp_doc" -> GetDocLocalFilePath(metadata, opts.docs_path, TRUE)
      [] file_key = "manifest" -> manifest_only_file_info.manifest_file_path
      [] file_key = "components_zip_sha256" -> manifest_only_file_info.sha256_file_path
      [] file_key = "components_zip" -> manifest_only_file_info.zip_file_path

OptionalKinds ==
    {"icon", "doc", "inapp_doc", "manifest", "components_zip_sha256", "components_zip"}

\* C10: a missing optional artifact, a doc whose documentation URL resolves to
\* no local path included, does not fail the run: no optional step raises, and
\* in the report the kind's two outcomes are not uploaded and carry no id.
C10_MissingOptionalTolerated ==
    /\ pc = "failed" => err \notin {"AttributeError", "FileNotFoundError"}
    /\ pc = "done" =>
        \A k \in OptionalKinds :
            (OptionalLocalPath(k) = None \/ ~PathExists(fs, OptionalLocalPath(k))) =>
                \A o \in Outcomes(uploaded_files) :
                    o.id \in {FileId("versioned", k), FileId("latest", k)} =>
                        (~o.uploaded /\ o.blob_id = None)

\* The positions of a run that resolved its credentials: the publish steps and
\* the return.
PublishPositions ==
    {"metadata", "release_candidate", "icon", "doc", "inapp_doc", "manifest",
     "components_zip_sha256", "components_zip", "return", "done"}

\* C11: validation gates every upload.  A run whose metadata file does not load
\* or whose mutated document the validators reject ends with ValueError and has
\* touched nothing in the store; a run that resolved credentials, read or wrote
\* the store or collected an outcome holds a document that passed validation.
C11_ValidationGatesUpload ==
    /\ (pc \in PublishPositions \cup {"credentials"} \/ store_log # {}
            \/ uploaded_files # <<>>) =>
           (answers.valid /\ metadata # None)
    /\ ~answers.valid => (store_log = {} /\ uploaded_files = <<>> /\ store = <<>>)
    /\ (~answers.valid /\ pc \notin {"start", "modify", "validate"}) =>
           (pc = "failed" /\ err # "")
    /\ (pc = "failed" /\ metadata_file_path # None /\ ~answers.valid) =>
           err = "ValueError"
    /\ (pc = "failed" /\ YamlLoad(fs[opts.metadata_file_path]) = None) =>
           (err = "ValueError" /\ metadata_file_path = None)

\* The validators rejected the mutated document: the run failed with ValueError
\* after the mutated file was written, the store empty.
C11_Witness ==
    /\ pc = "failed"
    /\ metadata_file_path # None
    /\ ~answers.valid
    /\ err = "ValueError"
    /\ store = <<>>

\* C12: a credential variable that is absent, empty, no JSON or no service
\* account fails the run with an error before any read or write of the store;
\* no store operation and no outcome exists without resolved credentials.
C12_CredentialFailureIsFatal ==
    /\ answers.gcs_creds \in CredentialStates \ {"ok"} =>
           /\ pc = "failed"
           /\ err \in {"ValueError", "JSONDecodeError"}
           /\ store_log = {} /\ uploaded_files = <<>> /\ store = <<>>
    /\ (pc \in PublishPositions \/ store_log # {} \/ uploaded_files # <<>>) =>
           answers.gcs_creds = "ok"

\* A validated document met credentials that are JSON but no service account:
\* the run failed, the store untouched.
C12_Witness ==
    /\ pc = "failed"
    /\ answers.valid
    /\ answers.gcs_creds = "not a service account"
    /\ err = "ValueError"
    /\ store_log = {}

\* C13: the metadata file is required.  A metadata or release_candidate step
\* that finds no file at metadata_file_path fails the run with
\* FileNotFoundError: no run goes on with a metadata-class outcome recorded as
\* not written, without id, for want of the file.
C13_MetadataRequired ==
    \A o \in Outcomes(uploaded_files) :
        o.id \in {FileId("versioned", "metadata"),
                  FileId("versioned", "release_candidate")} => o.blob_id # None

\* C14: a failed SBOM probe is not fatal.  When the HEAD request answers with a
\* non-success status or fails on the network, the mutator raises nothing, the
\* mutated document carries no generated.sbomUrl, and the run goes on.
C14_SbomLookupNonFatal ==
    /\ err # "ConnectionError"
    /\ (metadata_file_path # None /\ ~answers.sbom) =>
           YamlLoad(fs[metadata_file_path]).generated.sbomUrl = None

\* The caller's metadata file as _safe_load_metadata_file reads it, and the
\* mutated file as written.
OriginalDocument == YamlLoad(fs[opts.metadata_file_path])

MutatedDocument == YamlLoad(fs[metadata_file_path])

\* C15: with a prerelease tag T, _apply_prerelease_overrides sets the top-level
\* dockerImageTag to T and the dockerImageTag of every registry override that
\* carries one to T, and changes nothing else; without a tag it returns the
\* document as it is.  The mutated file carries the step's result in every
\* field the later steps do not write.
C15_PrereleaseOverride ==
    metadata_file_path # None =>
        LET T == opts.prerelease_tag
            step == ApplyPrereleaseOverrides(OriginalDocument, T)
        IN  /\ T = NoPrereleaseTag => step = OriginalDocument
            /\ T # NoPrereleaseTag =>
                   /\ step.dockerImageTag = T
                   /\ DOMAIN step = DOMAIN OriginalDocument
                   /\ \A f \in DOMAIN OriginalDocument
                              \ {"dockerImageTag", "registryOverrides"} :
                          step[f] = OriginalDocument[f]
                   /\ DOMAIN step.registryOverrides =
                          DOMAIN OriginalDocument.registryOverrides
                   /\ \A reg \in DOMAIN OriginalDocument.registryOverrides :
                          LET old == OriginalDocument.registryOverrides[reg]
                              new == step.registryOverrides[reg]
                          IN  /\ DOMAIN new = DOMAIN old
                              /\ \A k \in DOMAIN old :
                                     new[k] = IF k = "dockerImageTag" THEN T ELSE old[k]
            /\ DOMAIN MutatedDocument = DOMAIN OriginalDocument
            /\ \A f \in DOMAIN MutatedDocument \ {"generated"} :
                   MutatedDocument[f] = step[f]

\* A prerelease run wrote a mutated document whose top-level tag and cloud
\* override tag are the prerelease tag, the original's being the release tag,
\* and whose override without a tag is as it was.
C15_Witness ==
    /\ metadata_file_path # None
    /\ opts.prerelease_tag # NoPrereleaseTag
    /\ OriginalDocument.dockerImageTag # opts.prerelease_tag
    /\ OriginalDocument.registryOverrides.cloud.dockerImageTag # opts.prerelease_tag
    /\ MutatedDocument.dockerImageTag = opts.prerelease_tag
    /\ MutatedDocument.registryOverrides.cloud.dockerImageTag = opts.prerelease_tag
    /\ MutatedDocument.registryOverrides.oss = OriginalDocument.registryOverrides.oss

\* C16: in runs given a prerelease tag T, whatever isReleaseCandidate says,
\* every store operation addresses {connectorDir}/T/, the store holds nothing
\* under latest, release_candidate or the document's own image tag, no latest
\* outcome is written and the outcomes hold no release_candidate entry.
C16_PrereleaseRouting ==
    opts.prerelease_tag # NoPrereleaseTag =>
        /\ \A e \in store_log :
               /\ e.path.dir = GcpConnectorDir(OriginalDocument.dockerRepository)
               /\ e.path.alias = opts.prerelease_tag
        /\ \A p \in DOMAIN store :
               /\ p.alias = opts.prerelease_tag
               /\ p.alias \notin {LATEST_GCS_FOLDER_NAME,
                                  RELEASE_CANDIDATE_GCS_FOLDER_NAME,
                                  OriginalDocument.dockerImageTag}
        /\ \A o \in Outcomes(uploaded_files) :
               /\ o.id[2] # "release_candidate"
               /\ o.id[1] = "latest" => (~o.uploaded /\ o.blob_id = None)

\* A release candidate was published with a prerelease tag: the run returned
\* and wrote its metadata under the tag.
C16_Witness ==
    /\ pc = "done"
    /\ opts.prerelease_tag # NoPrereleaseTag
    /\ IsReleaseCandidateDocument(metadata)
    /\ \E e \in Writes :
           e.file_key = "metadata" /\ e.path.alias = opts.prerelease_tag

\* The run in progress publishes a release candidate without a prerelease tag.
ReleaseCandidateRun ==
    /\ metadata # None
    /\ IsReleaseCandidateDocument(metadata)
    /\ opts.prerelease_tag = NoPrereleaseTag

\* C17: no step of a release-candidate run without a prerelease tag writes,
\* creates or changes an object under {connectorDir}/latest/, whatever the
\* artifact kind: the latest objects earlier runs published stay as they were.
C17_ReleaseCandidateLeavesLatest ==
    [][ReleaseCandidateRun =>
          /\ \A p \in DOMAIN store \cup DOMAIN store' :
                 p.alias = LATEST_GCS_FOLDER_NAME => BlobAt(store', p) = BlobAt(store, p)
          /\ \A e \in store_log' : e.path.alias # LATEST_GCS_FOLDER_NAME
          /\ \A i \in 1..Len(uploaded_files') :
                 uploaded_files'[i].id[1] = "latest" =>
                     (~uploaded_files'[i].uploaded /\ uploaded_files'[i].blob_id = None)]_vars

\* A connector whose doc was published under latest was published again as a
\* release candidate: the run wrote, returned, and the latest doc is in the
\* store.
C17_Witness ==
    /\ pc = "done"
    /\ run > 1
    /\ ReleaseCandidateRun
    /\ Writes # {}
    /\ \E p \in DOMAIN store :
           p.alias = LATEST_GCS_FOLDER_NAME /\ p.name = <<"foo", ".md">>

\* The artifact kinds in the order of the _file_upload calls, and the ids of
\* the outcomes a full run collects: versioned, then latest, for each kind.
ExpectedKinds(with_release_candidate) ==
    <<"metadata">>
        \o (IF with_release_candidate THEN <<"release_candidate">> ELSE <<>>)
        \o <<"icon", "doc", "inapp_doc", "manifest", "components_zip_sha256",
             "components_zip">>

ExpectedIds(with_release_candidate) ==
    LET kinds == ExpectedKinds(with_release_candidate)
    IN  [i \in 1..(2 * Len(kinds)) |->
            FileId(IF i % 2 = 1 THEN "versioned" ELSE "latest", kinds[(i + 1) \div 2])]

\* C18: the metadata step comes first: a store operation or an outcome of
\* another kind exists only once the metadata step has returned.  The outcomes
\* are collected, and reported, in the order metadata, release_candidate (when
\* should_upload_release_candidate), icon, doc, inapp_doc, manifest,
\* components_zip_sha256, components_zip, versioned before latest.
C18_StepOrdering ==
    /\ metadata = None => (uploaded_files = <<>> /\ store_log = {})
    /\ \A e \in store_log : e.file_key # "metadata" => StepDone("metadata")
    /\ ~StepDone("metadata") =>
           (uploaded_files = <<>> /\ \A e \in store_log : e.file_key = "metadata")
    /\ metadata # None =>
           LET expected == ExpectedIds(should_upload_release_candidate)
           IN  /\ Len(uploaded_files) <= Len(expected)
               /\ \A i \in 1..Len(uploaded_files) : uploaded_files[i].id = expected[i]
               /\ pc \in {"return", "done"} => Len(uploaded_files) = Len(expected)
               /\ pc = "done" => report.uploaded_files = uploaded_files

\* A release candidate's run returned a report of sixteen outcomes, with
\* objects of other kinds written after the metadata.
C18_Witness ==
    /\ pc = "done"
    /\ should_upload_release_candidate
    /\ Len(report.uploaded_files) = 16
    /\ \E e \in Writes : e.file_key = "metadata"
    /\ \E e \in Writes : e.file_key = "manifest"

MetadataKinds == {"metadata", "release_candidate"}

CacheControlOf(file_key) ==
    IF file_key \in MetadataKinds THEN "no-cache" ELSE "default"

\* The uploads of the run that found the remote object unchanged.
Skipped ==
    {e \in store_log :
        e.op = "read" /\ \A w \in Writes : w.path # e.path}

\* C19: every write of the metadata file (version, latest, release_candidate)
\* stores the object with no-cache and no write of another kind does; the
\* objects of the store carry no-cache exactly when they hold a metadata
\* document, also after later runs skipped them as unchanged.
C19_CacheDirective ==
    /\ \A e \in store_log : e.disable_cache <=> e.file_key \in MetadataKinds
    /\ \A e \in Writes :
           /\ BlobExists(store, e.path)
           /\ store[e.path].cache_control = CacheControlOf(e.file_key)
    /\ \A e \in Skipped :
           /\ BlobExists(store, e.path)
           /\ store[e.path].cache_control = CacheControlOf(e.file_key)
    /\ \A p \in DOMAIN store :
           store[p].cache_control = "no-cache" <=> "yaml" \in DOMAIN store[p].content

\* A second run wrote its metadata with no-cache and skipped the unchanged
\* manifest, stored without the directive.
C19_Witness ==
    /\ pc = "done"
    /\ run > 1
    /\ \E e \in Writes :
           e.file_key = "metadata" /\ store[e.path].cache_control = "no-cache"
    /\ \E e \in Skipped :
           e.file_key = "manifest" /\ store[e.path].cache_control = "default"

\* C20: the icon is looked up beside the metadata file the caller passed.  A
\* first run that publishes latest, with an icon in the working directory,
\* writes it to {connectorDir}/latest/{icon filename} and reports latest_icon
\* uploaded; no icon is written to a version-pinned path.
C20_IconFromWorkingDirectory ==
    /\ (/\ pc = "done"
        /\ run = 1
        /\ should_upload_latest
        /\ PathExists(fs, LocalPath(opts.metadata_file_path.dir, ICON_FILE_NAME))) =>
           /\ \E o \in Outcomes(report.uploaded_files) :
                  o.id = FileId("latest", "icon") /\ o.uploaded
           /\ BlobExists(store, BlobPath(gcp_connector_dir, LATEST_GCS_FOLDER_NAME,
                                         ICON_FILE_NAME))
    /\ \A e \in store_log :
           e.file_key = "icon" => e.path.alias = LATEST_GCS_FOLDER_NAME

\* The objects of the store that hold a metadata document.
MetadataObjects == {p \in DOMAIN store : "yaml" \in DOMAIN store[p].content}

StoredDocument(p) == YamlLoad(store[p].content)

\* C21: after any sequence of runs from an empty store, a metadata object
\* under a version-pinned alias v (not latest, not release_candidate) holds a
\* document whose dockerImageTag is v, and a metadata object under latest or
\* release_candidate holds a document whose dockerRepository is the repository
\* segment of its connector directory.
C21_VersionPathAgreesWithContent ==
    \A p \in MetadataObjects :
        IF p.alias \in {LATEST_GCS_FOLDER_NAME, RELEASE_CANDIDATE_GCS_FOLDER_NAME}
        THEN p.dir = GcpConnectorDir(StoredDocument(p).dockerRepository)
        ELSE StoredDocument(p).dockerImageTag = p.alias

\* After a release and a later prerelease of another version from another
\* repository, the store holds a metadata object under the release tag, one
\* under latest, and one under the prerelease tag in the other repository's
\* directory, whose document came with another tag.
C21_Witness ==
    /\ run > 1
    /\ pc = "done"
    /\ opts.prerelease_tag # NoPrereleaseTag
    /\ OriginalDocument.dockerImageTag = "2.2.0"
    /\ OriginalDocument.dockerRepository = "source-bar"
    /\ \E p \in MetadataObjects : p.alias = "2.1.0"
    /\ \E p \in MetadataObjects : p.alias = LATEST_GCS_FOLDER_NAME
    /\ \E p \in MetadataObjects :
           p.alias = opts.prerelease_tag /\ p.dir = GcpConnectorDir("source-bar")

====
